---------------------------- MODULE Spec2Model ----------------------------
(***************************************************************************)
(* ProtEnc (src/src/protenc.h): a typestate wrapper.  A wrapper object     *)
(* carries a state tag and owns one wrapped value; every call is resolved  *)
(* against the lists of the protocol graph (InitialStates, Transitions,    *)
(* FinalTransitions, ValidQueries).  The resolution is done by the C++     *)
(* compiler: a call that does not resolve is a program that does not       *)
(* build.  The model keeps the state tag as a field and records a rejected *)
(* call as an attempt whose outcome is "error" and that ran nothing.       *)
(*                                                                         *)
(* The wrapped class is the one of src/example/http_connection.cc.         *)
(***************************************************************************)
EXTENDS Naturals, Sequences, FiniteSets

\* Bounds of the exploration.
MaxSteps == 5
MaxHandles == 2

---------------------------------------------------------------------------
(* The state domain and the wrapped class *)

\* enum class HTTPBuilderState
HTTPBuilderState == {"START", "HEADERS", "BODY"}

\* The member functions of the wrapped class, &Wrapped::name.  "start" is
\* the consuming function of the second variant, declared without &&.
MemberFunctions == {"add_header", "add_body", "num_headers", "build", "start"}

NoArg == "none"

\* The argument values a call is tried with.
ArgsOf(op) ==
  CASE op = "add_header" -> {"a", "b"}
    [] op = "add_body"   -> {"x"}
    [] OTHER             -> {NoArg}

\* cv/ref qualification of the member function.
Qualifier(op) ==
  CASE op = "build"       -> "rvalue"
    [] op = "num_headers" -> "const"
    [] OTHER              -> "plain"

\* Wrapped{}: headers_ and body_ default-constructed.
DefaultWrapped == [headers |-> <<>>, body |-> ""]

\* Return values, in one shape: void, size_t, HTTPConnection.
Void == [tag |-> "void", n |-> 0, headers |-> <<>>, body |-> ""]
SizeT(n) == [tag |-> "size_t", n |-> n, headers |-> <<>>, body |-> ""]
HTTPConnection(hs, b) == [tag |-> "HTTPConnection", n |-> 0, headers |-> hs, body |-> b]

\* What a std::string holds after it was moved from: valid but unspecified.
\* mfs is what the library does with it: "empty" or "unchanged".
MovedFromString(s, mfs) == IF mfs = "empty" THEN "" ELSE s

\* The outcomes a move of the string s can have.
MovedFromChoices(s) == IF s = "" THEN {"empty"} ELSE {"empty", "unchanged"}

\* What the object holds after its contents were moved out: the vector is
\* empty, the string is in the moved-from state.
MovedFromWrapped(v, mfs) == [headers |-> <<>>, body |-> MovedFromString(v.body, mfs)]

\* Mutant: add_header puts the header in front of the ones held.
Invoke_HeaderInFront(op, v, arg, mfs) ==
  CASE op = "add_header" ->
         [val |-> [v EXCEPT !.headers = <<arg>> \o @], ret |-> Void]
    [] op = "add_body" ->
         [val |-> [v EXCEPT !.body = arg], ret |-> Void]
    [] op = "num_headers" ->
         [val |-> v, ret |-> SizeT(Len(v.headers))]
    [] OTHER ->
         [val |-> MovedFromWrapped(v, mfs), ret |-> HTTPConnection(v.headers, v.body)]

\* (wrapped.*op)(arg): the receiver afterwards and the value returned.
Invoke(op, v, arg, mfs) ==
  CASE op = "add_header" ->
         [val |-> [v EXCEPT !.headers = Append(@, arg)], ret |-> Void]
    [] op = "add_body" ->
         [val |-> [v EXCEPT !.body = arg], ret |-> Void]
    [] op = "num_headers" ->
         [val |-> v, ret |-> SizeT(Len(v.headers))]
    [] OTHER ->
         [val |-> MovedFromWrapped(v, mfs), ret |-> HTTPConnection(v.headers, v.body)]

\* The outcomes of the moves a call of op makes: it moves the string held
\* before the call or the one held after op ran.
MoveChoices(v, op, arg) ==
  MovedFromChoices(v.body) \cup MovedFromChoices(Invoke(op, v, arg, "empty").val.body)

---------------------------------------------------------------------------
(* Entries of the graph *)

Transition(s, e, f) == [kind |-> "Transition", start |-> s, end |-> e, op |-> f]
FinalTransition(s, f) == [kind |-> "FinalTransition", start |-> s, end |-> "-", op |-> f]
ValidQuery(s, f) == [kind |-> "ValidQuery", start |-> s, end |-> "-", op |-> f]
NotFound == [kind |-> "NotFound", start |-> "-", end |-> "-", op |-> "-"]

\* What a failed lookup of a state yields: the program is ill-formed.
IllFormed == "ill-formed"


---------------------------------------------------------------------------
(* The graphs the wrapper is instantiated with.  Each list is the pack of  *)
(* its list type; a list type is checked for its own template only, so a   *)
(* list can hold entries of any kind.                                      *)

\* src/example/http_connection.cc: (header)+(body)(build)
HTTPBuilderGraph ==
  [InitialStates |-> <<"START">>,
   Transitions |-> << Transition("START", "HEADERS", "add_header"),
                      Transition("HEADERS", "HEADERS", "add_header"),
                      Transition("HEADERS", "BODY", "add_body") >>,
   FinalTransitions |-> << FinalTransition("BODY", "build") >>,
   ValidQueries |-> << ValidQuery("BODY", "num_headers") >>]

\* The second variant of the example: the final function is start(),
\* declared without &&.
HTTPStarterGraph ==
  [HTTPBuilderGraph EXCEPT !.FinalTransitions = << FinalTransition("BODY", "start") >>]

\* Two entries with the same (start, function) key in a list, and no
\* final transition at all.
DuplicateKeyGraph ==
  [InitialStates |-> <<"START">>,
   Transitions |-> << Transition("START", "HEADERS", "add_header"),
                      Transition("START", "BODY", "add_header"),
                      Transition("HEADERS", "BODY", "add_body"),
                      Transition("HEADERS", "HEADERS", "add_body") >>,
   FinalTransitions |-> << >>,
   ValidQueries |-> << ValidQuery("HEADERS", "num_headers"),
                       ValidQuery("HEADERS", "num_headers") >>]

\* Lists holding entries of another kind than their own.
MixedKindGraph ==
  [InitialStates |-> <<"START">>,
   Transitions |-> << Transition("START", "HEADERS", "add_header"),
                      FinalTransition("HEADERS", "add_header"),
                      Transition("HEADERS", "HEADERS", "add_header"),
                      Transition("HEADERS", "BODY", "add_body"),
                      ValidQuery("BODY", "add_body") >>,
   FinalTransitions |-> << ValidQuery("BODY", "build"),
                           FinalTransition("BODY", "build"),
                           FinalTransition("HEADERS", "build") >>,
   ValidQueries |-> << ValidQuery("HEADERS", "num_headers"),
                       Transition("BODY", "START", "num_headers"),
                       ValidQuery("BODY", "num_headers") >>]

\* InitialStates<>: the empty pack.
NoInitialGraph ==
  [HTTPBuilderGraph EXCEPT !.InitialStates = << >>]

\* Entries that name a state of another enum ("ELSEWHERE") or a member
\* function of another class ("Other::f") next to entries of the domains.
OutOfDomainGraph ==
  [InitialStates |-> <<"START">>,
   Transitions |-> << Transition("ELSEWHERE", "BODY", "add_header"),
                      Transition("START", "HEADERS", "add_header"),
                      Transition("HEADERS", "BODY", "Other::f"),
                      Transition("ELSEWHERE", "BODY", "add_body") >>,
   FinalTransitions |-> << FinalTransition("ELSEWHERE", "build"),
                           FinalTransition("HEADERS", "Other::f") >>,
   ValidQueries |-> << ValidQuery("HEADERS", "Other::f"),
                       ValidQuery("ELSEWHERE", "num_headers"),
                       ValidQuery("HEADERS", "num_headers") >>]

\* A function declared for a state in the list of another kind of call
\* only: num_headers is a Transition at HEADERS and a ValidQuery at START.
CrossListGraph ==
  [InitialStates |-> <<"START">>,
   Transitions |-> << Transition("START", "HEADERS", "add_header"),
                      Transition("HEADERS", "HEADERS", "num_headers") >>,
   FinalTransitions |-> << FinalTransition("HEADERS", "build") >>,
   ValidQueries |-> << ValidQuery("START", "num_headers") >>]

Graphs == {HTTPBuilderGraph, HTTPStarterGraph, DuplicateKeyGraph, MixedKindGraph,
           NoInitialGraph, OutOfDomainGraph, CrossListGraph}

---------------------------------------------------------------------------
(* The resolver *)

\* Mutant: the lookup compares the function only, not the start state.
find_transition_t_AnyState(CurrentState, FunctionPointer, pack) ==
  LET idx == {i \in DOMAIN pack : pack[i].op = FunctionPointer}
  IN  IF idx = {} THEN NotFound
      ELSE pack[CHOOSE i \in idx : \A j \in idx : i <= j]

\* Mutant: the lookup compares the start state only, not the function.
find_transition_t_AnyFunction(CurrentState, FunctionPointer, pack) ==
  LET idx == {i \in DOMAIN pack : pack[i].start = CurrentState}
  IN  IF idx = {} THEN NotFound
      ELSE pack[CHOOSE i \in idx : \A j \in idx : i <= j]

\* Mutant: a matching Transition is preferred to the matching entries of
\* the other kinds declared before it.
find_transition_t_PrefersTransition(CurrentState, FunctionPointer, pack) ==
  LET idx == {i \in DOMAIN pack : pack[i].start = CurrentState /\ pack[i].op = FunctionPointer}
      tr  == {i \in idx : pack[i].kind = "Transition"}
      from == IF tr # {} THEN tr ELSE idx
  IN  IF idx = {} THEN NotFound
      ELSE pack[CHOOSE i \in from : \A j \in from : i <= j]

\* Mutant: the lookup returns the last matching entry, not the first.
find_transition_t_LastMatch(CurrentState, FunctionPointer, pack) ==
  LET idx == {i \in DOMAIN pack : pack[i].start = CurrentState /\ pack[i].op = FunctionPointer}
  IN  IF idx = {} THEN NotFound
      ELSE pack[CHOOSE i \in idx : \A j \in idx : j <= i]

\* find_transition_t over the unwrapped pack: the first entry, of any kind,
\* whose start state and function are the requested ones; NotFound on the
\* empty pack.
RECURSIVE find_transition_t(_, _, _)
find_transition_t(CurrentState, FunctionPointer, pack) ==
  IF pack = << >> THEN NotFound
  ELSE IF Head(pack).start = CurrentState /\ Head(pack).op = FunctionPointer
       THEN Head(pack)
       ELSE find_transition_t(CurrentState, FunctionPointer, Tail(pack))

find_transition(CurrentState, FunctionPointer, list) ==
  find_transition_t(CurrentState, FunctionPointer, list)

\* Mutant: EndState is taken from the entry's start state.
return_of_transition_Start(Transitions, CurrentState, FunctionPointer) ==
  LET t == find_transition(CurrentState, FunctionPointer, Transitions)
  IN  IF t.kind = "Transition" THEN t.start ELSE IllFormed

\* Mutant: a lookup that finds nothing leaves the wrapper at its state.
return_of_transition_NotFoundStays(Transitions, CurrentState, FunctionPointer) ==
  LET t == find_transition(CurrentState, FunctionPointer, Transitions)
  IN  IF t.kind = "Transition" THEN t.end
      ELSE IF t = NotFound THEN CurrentState ELSE IllFormed

\* return_of_transition: EndState of the entry found in Transitions, when
\* that entry is a Transition.  NotFound fails the static_assert; an entry
\* of another kind has no EndState.
return_of_transition(Transitions, CurrentState, FunctionPointer) ==
  LET t == find_transition(CurrentState, FunctionPointer, Transitions)
  IN  IF t.kind = "Transition" THEN t.end ELSE IllFormed

\* Mutant: the type is taken from a Transition, not from a FinalTransition.
return_of_final_transition_OfTransition(FinalTransitions, CurrentState, FunctionPointer) ==
  find_transition(CurrentState, FunctionPointer, FinalTransitions).kind = "Transition"

\* return_of_final_transition: has a type when the entry found in
\* FinalTransitions is a FinalTransition.
return_of_final_transition(FinalTransitions, CurrentState, FunctionPointer) ==
  find_transition(CurrentState, FunctionPointer, FinalTransitions).kind = "FinalTransition"

\* return_of_valid_query: has a type when the entry found in ValidQueries
\* is a ValidQuery.
return_of_valid_query(ValidQueries, CurrentState, FunctionPointer) ==
  find_transition(CurrentState, FunctionPointer, ValidQueries).kind = "ValidQuery"

\* Mutant: the check of the initial state is not made.
check_initial_state_v_AlwaysTrue(State, InitialStates) == TRUE

\* Mutant: the fold over the empty pack is true.
check_initial_state_v_EmptyIsTrue(State, InitialStates) ==
  \/ InitialStates = << >>
  \/ \E i \in DOMAIN InitialStates : State = InitialStates[i]

\* check_initial_state_v: ((State == InitialState) || ...), false on the
\* empty pack.
RECURSIVE check_initial_state_v(_, _)
check_initial_state_v(State, InitialStates) ==
  IF InitialStates = << >> THEN FALSE
  ELSE State = Head(InitialStates) \/ check_initial_state_v(State, Tail(InitialStates))

\* Mutant: every member function passes for a && function.
is_pointer_to_r_value_member_function_AnyFunction(FunctionPointer) == TRUE

\* is_pointer_to_r_value_member_function
is_pointer_to_r_value_member_function(FunctionPointer) ==
  Qualifier(FunctionPointer) = "rvalue"

\* (wrapped_.*FunctionPointer)(...) in an rvalue-qualified member: wrapped_
\* is a non-const lvalue, on which a && function cannot be called.
CallableOnLvalue(FunctionPointer) == Qualifier(FunctionPointer) # "rvalue"

\* (wrapped_.*FunctionPointer)(...) in a const member: wrapped_ is const.
CallableOnConst(FunctionPointer) == Qualifier(FunctionPointer) = "const"

---------------------------------------------------------------------------
(* The program: wrapper objects and the calls made on them *)

VARIABLES
  graph,      \* the lists the wrapper template is instantiated with
  handles,    \* the wrapper objects in scope, in order of creation
  last,       \* the last call attempted and what it did
  nSteps      \* number of calls attempted so far

vars == <<graph, handles, last, nSteps>>

\* A wrapper object: CurrentState and wrapped_.  start, path, args, reused
\* and consumed are history: the state it was constructed at, the functions
\* and the arguments of the transition calls that led to it, whether one of
\* these calls was made on a wrapper already consumed, and whether a
\* transition or final transition call was already made on it.
Wrapper(CurrentState, wrapped, start, path) ==
  [st |-> CurrentState, val |-> wrapped, start |-> start, path |-> path,
   args |-> << >>, reused |-> FALSE, consumed |-> FALSE]

\* The record of a call: what was called on which wrapper (h, from, before,
\* onConsumed), whether it compiled (outcome), the wrapper it returned
\* (succ, to, after), the value it returned (result), and how often it
\* copied the wrapped value (copies) and ran the wrapped function (invoked).
\* repeat: the call is a query that repeats the query made just before it,
\* which returned prevResult.  path, args, reused: the history of the
\* wrapper called on.
NoCall ==
  [call |-> "none", h |-> 0, op |-> "-", arg |-> NoArg, from |-> "-",
   outcome |-> "none", succ |-> 0, to |-> "-", before |-> DefaultWrapped,
   after |-> DefaultWrapped, result |-> Void, onConsumed |-> FALSE,
   copies |-> 0, invoked |-> 0, repeat |-> FALSE, prevResult |-> Void,
   path |-> << >>, args |-> << >>, reused |-> FALSE]

Init ==
  /\ graph \in Graphs
  /\ handles = << >>
  /\ last = NoCall
  /\ nSteps = 0

\* The record of a call of FunctionPointer on handles[h], before it ran.
Attempt(call, h, FunctionPointer, arg) ==
  [NoCall EXCEPT !.call = call, !.h = h, !.op = FunctionPointer, !.arg = arg,
     !.from = handles[h].st, !.before = handles[h].val,
     !.onConsumed = handles[h].consumed, !.path = handles[h].path,
     !.args = handles[h].args, !.reused = handles[h].reused]

\* The record of a call that did not compile: nothing ran, so neither the
\* argument nor the value called on plays a part.
Rejected(rec) ==
  [rec EXCEPT !.outcome = "error", !.arg = NoArg, !.before = DefaultWrapped,
     !.path = << >>, !.args = << >>, !.reused = FALSE]

\* A call that does not resolve is a compile error: the program does not
\* build and nothing more of it runs.
Building == last.outcome # "error"

\* Mutant: the object constructed is left empty and the source keeps the
\* contents.
MoveConstruct_LosesValue(wrapped, mfs) ==
  [to |-> MovedFromWrapped(wrapped, mfs), from |-> wrapped]

\* GenericWrapper(Wrapped&& wrapped) : wrapped_(std::move(wrapped)): the
\* object constructed and what is left in the source.
MoveConstruct(wrapped, mfs) ==
  [to |-> wrapped, from |-> MovedFromWrapped(wrapped, mfs)]

\* WRAPPER_TYPE(Base&& other) : Base(other): other is an lvalue here, so
\* this is GenericWrapper's copy constructor: wrapped_ is copied and other
\* keeps its contents.
WrapperFromBase(other) ==
  [to |-> other, from |-> other, copies |-> 1]

\* Mutant: the construction also demands that the graph declares a final
\* transition.
check_initial_state_NeedsFinalTransition(State) ==
  /\ check_initial_state_v(State, graph.InitialStates)
  /\ graph.FinalTransitions # << >>

\* check_initial_state<CurrentState>() in the constructor.
check_initial_state(State) == check_initial_state_v(State, graph.InitialStates)

\* WRAPPER_TYPE() : Base(Wrapped{}), with check_initial_state<CurrentState>.
Construct(s) ==
  /\ Building
  /\ Len(handles) < MaxHandles
  /\ nSteps < MaxSteps
  /\ nSteps' = nSteps + 1
  /\ IF check_initial_state(s)
     THEN /\ handles' = Append(handles, Wrapper(s, MoveConstruct(DefaultWrapped, "empty").to, s, << >>))
          /\ last' = [NoCall EXCEPT !.call = "construct", !.succ = Len(handles) + 1,
                        !.from = s, !.to = s, !.outcome = "ok"]
     ELSE /\ handles' = handles
          /\ last' = [NoCall EXCEPT !.call = "construct", !.from = s,
                        !.outcome = "error"]
  /\ UNCHANGED graph

\* Mutant: the target state is chosen by the argument value.
TargetState_ByArg(me, FunctionPointer, arg) ==
  LET e == return_of_transition(graph.Transitions, me.st, FunctionPointer)
  IN  IF e # IllFormed /\ arg = "b" THEN me.st ELSE e

\* call_transition: constexpr auto target_state = return_of_transition<...>,
\* in a call made on the wrapper me with the argument arg.
TargetState(me, FunctionPointer, arg) ==
  return_of_transition(graph.Transitions, me.st, FunctionPointer)

\* Mutant: the wrapper returned is constructed with the check of the
\* initial states.
TransitionCompiles_ChecksInitial(me, FunctionPointer, arg) ==
  /\ TargetState(me, FunctionPointer, arg) # IllFormed
  /\ CallableOnLvalue(FunctionPointer)
  /\ check_initial_state(TargetState(me, FunctionPointer, arg))

\* Whether call_transition<FunctionPointer>(arg) on me compiles.
TransitionCompiles(me, FunctionPointer, arg) ==
  /\ TargetState(me, FunctionPointer, arg) # IllFormed
  /\ CallableOnLvalue(FunctionPointer)

\* Whether call_final_transition<FunctionPointer>(arg) on me compiles.
FinalTransitionCompiles(me, FunctionPointer, arg) ==
  /\ return_of_final_transition(graph.FinalTransitions, me.st, FunctionPointer)
  /\ is_pointer_to_r_value_member_function(FunctionPointer)

\* Mutant: the query is looked up in the three lists, one after the other.
ValidQueryCompiles_AnyList(me, FunctionPointer, arg) ==
  /\ find_transition(me.st, FunctionPointer,
                     graph.ValidQueries \o graph.Transitions \o graph.FinalTransitions)
       # NotFound
  /\ CallableOnConst(FunctionPointer)

\* Whether call_valid_query<FunctionPointer>(arg) on me compiles.
ValidQueryCompiles(me, FunctionPointer, arg) ==
  /\ return_of_valid_query(graph.ValidQueries, me.st, FunctionPointer)
  /\ CallableOnConst(FunctionPointer)

\* Mutant: the function is called a second time on wrapped_.
InvokeOnLvalue_Twice(wrapped, FunctionPointer, arg, mfs) ==
  Invoke(FunctionPointer, Invoke(FunctionPointer, wrapped, arg, mfs).val, arg, mfs)

\* (wrapped_.*FunctionPointer)(std::forward<Args>(args)...) in call_transition
InvokeOnLvalue(wrapped, FunctionPointer, arg, mfs) ==
  Invoke(FunctionPointer, wrapped, arg, mfs)

\* Mutant: call_transition hands back what the function returned.
ReturnOfCallTransition_Forwards(ret) == ret

\* The call of the function in call_transition is an expression statement:
\* the value ret it returns is dropped, and call_transition returns the
\* wrapper alone.
ReturnOfCallTransition(ret) == Void

\* Mutant: wrapped_ is moved out before the function is called on it.
InvokeOnRvalue_MovedFirst(wrapped, FunctionPointer, arg, mfs) ==
  Invoke(FunctionPointer, MovedFromWrapped(wrapped, "empty"), arg, mfs)

\* (std::move(wrapped_).*FunctionPointer)(std::forward<Args>(args)...)
InvokeOnRvalue(wrapped, FunctionPointer, arg, mfs) ==
  Invoke(FunctionPointer, wrapped, arg, mfs)

\* Mutant: the query moves wrapped_ out after calling the function.
InvokeOnConst_Moves(wrapped, FunctionPointer, arg) ==
  [val |-> MovedFromWrapped(wrapped, "empty"),
   ret |-> Invoke(FunctionPointer, wrapped, arg, "empty").ret]

\* (wrapped_.*FunctionPointer)(std::forward<Args>(args)...) on the const
\* wrapped_ in call_valid_query
InvokeOnConst(wrapped, FunctionPointer, arg) ==
  Invoke(FunctionPointer, wrapped, arg, "empty")

\* PROTENC_DECLARE_TRANSITION + call_transition: call the function on
\* wrapped_, move wrapped_ into a GenericWrapper at the target state and
\* build the wrapper from it.  keep: the object called on is a named
\* variable and stays in scope (moved-from); otherwise it was a temporary.
call_transition(h, FunctionPointer, arg, keep, mfs) ==
  LET me == handles[h]
      rec == Attempt("transition", h, FunctionPointer, arg)
  IN
  /\ Building
  /\ nSteps < MaxSteps
  /\ keep => Len(handles) < MaxHandles
  /\ nSteps' = nSteps + 1
  /\ IF TransitionCompiles(me, FunctionPointer, arg)
     THEN LET inv == InvokeOnLvalue(me.val, FunctionPointer, arg, mfs)
              target_state == TargetState(me, FunctionPointer, arg)
              tmp == MoveConstruct(inv.val, mfs)
              res == WrapperFromBase(tmp.to)
              new == [Wrapper(target_state, res.to, me.start,
                              Append(me.path, FunctionPointer))
                        EXCEPT !.args = Append(me.args, arg),
                               !.reused = me.reused \/ me.consumed]
              old == [me EXCEPT !.val = tmp.from, !.consumed = TRUE]
          IN /\ handles' = IF keep THEN Append([handles EXCEPT ![h] = old], new)
                                   ELSE [handles EXCEPT ![h] = new]
             /\ last' = [rec EXCEPT !.outcome = "ok", !.to = target_state,
                           !.succ = IF keep THEN Len(handles) + 1 ELSE h,
                           !.after = res.to, !.copies = res.copies,
                           !.invoked = 1,
                           !.result = ReturnOfCallTransition(inv.ret)]
     ELSE /\ ~keep /\ mfs = "empty" /\ arg = CHOOSE a \in ArgsOf(FunctionPointer) : TRUE
          /\ handles' = handles
          /\ last' = Rejected(rec)
  /\ UNCHANGED graph

\* PROTENC_DECLARE_FINAL_TRANSITION + call_final_transition: call the
\* function on std::move(wrapped_) and return its result.  keep as above;
\* a temporary is gone after the call.
call_final_transition(h, FunctionPointer, arg, keep, mfs) ==
  LET me == handles[h]
      rec == Attempt("final", h, FunctionPointer, arg)
  IN
  /\ Building
  /\ nSteps < MaxSteps
  /\ nSteps' = nSteps + 1
  /\ IF FinalTransitionCompiles(me, FunctionPointer, arg)
     THEN LET inv == InvokeOnRvalue(me.val, FunctionPointer, arg, mfs)
              old == [me EXCEPT !.val = inv.val, !.consumed = TRUE]
          IN /\ handles' = IF keep THEN [handles EXCEPT ![h] = old]
                                   ELSE SubSeq(handles, 1, h - 1) \o
                                        SubSeq(handles, h + 1, Len(handles))
             /\ last' = [rec EXCEPT !.outcome = "ok", !.result = inv.ret,
                           !.after = inv.val, !.invoked = 1]
     ELSE /\ ~keep /\ mfs = "empty" /\ arg = CHOOSE a \in ArgsOf(FunctionPointer) : TRUE
          /\ handles' = handles
          /\ last' = Rejected(rec)
  /\ UNCHANGED graph

\* PROTENC_DECLARE_QUERY_METHOD + call_valid_query: call the function on
\* the const wrapped_ and return its result.
call_valid_query(h, FunctionPointer, arg) ==
  LET me == handles[h]
      rec == Attempt("query", h, FunctionPointer, arg)
      again == /\ last.call = "query" /\ last.outcome = "ok" /\ last.h = h
               /\ last.op = FunctionPointer /\ last.arg = arg
  IN
  /\ Building
  /\ nSteps < MaxSteps
  /\ nSteps' = nSteps + 1
  /\ IF ValidQueryCompiles(me, FunctionPointer, arg)
     THEN LET inv == InvokeOnConst(me.val, FunctionPointer, arg)
          IN /\ handles' = [handles EXCEPT ![h] = [me EXCEPT !.val = inv.val]]
             /\ last' = [rec EXCEPT !.outcome = "ok", !.to = me.st,
                           !.result = inv.ret, !.after = inv.val, !.invoked = 1,
                           !.repeat = again,
                           !.prevResult = IF again THEN last.result ELSE Void]
     ELSE /\ arg = CHOOSE a \in ArgsOf(FunctionPointer) : TRUE
          /\ handles' = handles
          /\ last' = Rejected(rec)
  /\ UNCHANGED graph

Next ==
  \/ \E s \in HTTPBuilderState : Construct(s)
  \/ \E h \in 1..Len(handles), f \in MemberFunctions, keep \in BOOLEAN :
       \E arg \in ArgsOf(f) : \E mfs \in MoveChoices(handles[h].val, f, arg) :
         call_transition(h, f, arg, keep, mfs)
  \/ \E h \in 1..Len(handles), f \in MemberFunctions, keep \in BOOLEAN :
       \E arg \in ArgsOf(f) : \E mfs \in MoveChoices(handles[h].val, f, arg) :
         call_final_transition(h, f, arg, keep, mfs)
  \/ \E h \in 1..Len(handles), f \in MemberFunctions :
       \E arg \in ArgsOf(f) : call_valid_query(h, f, arg)

Spec == Init /\ [][Next]_vars

---------------------------------------------------------------------------
(* Properties *)

CallKinds == {"transition", "final", "query"}

\* The list a call of each kind is resolved against, and the kind of entry
\* it needs.
ListOf(g, call) ==
  CASE call = "transition" -> g.Transitions
    [] call = "final"      -> g.FinalTransitions
    [] OTHER               -> g.ValidQueries

KindOf(call) ==
  CASE call = "transition" -> "Transition"
    [] call = "final"      -> "FinalTransition"
    [] OTHER               -> "ValidQuery"

Keyed(e, q, f) == e.start = q /\ e.op = f

AllEntries(g) ==
  {g.Transitions[i] : i \in DOMAIN g.Transitions}
    \cup {g.FinalTransitions[i] : i \in DOMAIN g.FinalTransitions}
    \cup {g.ValidQueries[i] : i \in DOMAIN g.ValidQueries}

\* Some entry of the graph, of any kind and in any list, has the key (q, f).
SomeEntry(g, q, f) == \E e \in AllEntries(g) : Keyed(e, q, f)

\* The first entry of list with the key (q, f) exists and satisfies P.
FirstKeyed(list, q, f, P(_)) ==
  \E i \in DOMAIN list :
    /\ Keyed(list[i], q, f)
    /\ \A j \in 1..(i - 1) : ~Keyed(list[j], q, f)
    /\ P(list[i])

\* The way a call of each kind invokes the function: on a non-const
\* lvalue, on an rvalue (and && is demanded), on a const lvalue.
Invocable(call, f) ==
  CASE call = "transition" -> Qualifier(f) \in {"plain", "const"}
    [] call = "final"      -> Qualifier(f) = "rvalue"
    [] OTHER               -> Qualifier(f) = "const"

\* A call of kind call of f at state q resolves in its own list.
ResolvesInOwnList(g, call, q, f) ==
  /\ FirstKeyed(ListOf(g, call), q, f, LAMBDA e : e.kind = KindOf(call))
  /\ Invocable(call, f)

Compiles(call, me, f, arg) ==
  CASE call = "transition" -> TransitionCompiles(me, f, arg)
    [] call = "final"      -> FinalTransitionCompiles(me, f, arg)
    [] OTHER               -> ValidQueryCompiles(me, f, arg)

InitialSet(g) == {g.InitialStates[i] : i \in DOMAIN g.InitialStates}

C2_ConstructIffInitial ==
  /\ last.call = "construct" =>
       /\ last.outcome = "ok" <=> last.from \in InitialSet(graph)
       /\ last.outcome = "error" => last.succ = 0 /\ ~Building
  /\ \A i \in DOMAIN handles : handles[i].start \in InitialSet(graph)

\* A construction succeeded and the wrapper is at the state asked for.
C2_Witness ==
  /\ last.call = "construct"
  /\ last.outcome = "ok"
  /\ handles[last.succ].st = last.from

\* C3: a transition call of op at q that succeeds returns a wrapper whose
\* state is the end state of the Transition matching (q, op).
C3_TransitionReachesDeclaredEnd ==
  (last.call = "transition" /\ last.outcome = "ok") =>
    FirstKeyed(graph.Transitions, last.from, last.op,
               LAMBDA e : /\ e.kind = "Transition"
                          /\ handles[last.succ].st = e.end
                          /\ last.to = e.end)

\* A transition call succeeded and changed the state.
C3_Witness ==
  /\ last.call = "transition"
  /\ last.outcome = "ok"
  /\ handles[last.succ].st # last.from

\* The end state declared for (q, f): that of the first Transition with
\* this key.
DeclaredEnd(g, q, f) ==
  LET idx == {i \in DOMAIN g.Transitions : Keyed(g.Transitions[i], q, f)}
  IN  IF idx = {} THEN "-"
      ELSE g.Transitions[CHOOSE i \in idx : \A j \in idx : i <= j].end

\* The state reached from s by the transitions of path, in order.
RECURSIVE FollowPath(_, _, _)
FollowPath(g, s, path) ==
  IF path = << >> THEN s
  ELSE FollowPath(g, DeclaredEnd(g, s, Head(path)), Tail(path))

\* The states one declared Transition away from the states of R.
OneStep(g, R) ==
  R \cup {g.Transitions[i].end :
            i \in {j \in DOMAIN g.Transitions :
                     /\ g.Transitions[j].kind = "Transition"
                     /\ g.Transitions[j].start \in R}}

\* The states reachable from the initial states by declared Transitions.
ReachableStates(g) == OneStep(g, OneStep(g, OneStep(g, InitialSet(g))))

\* C4: the state of a wrapper is the one obtained from the state it was
\* constructed at by following the declared Transition of each transition
\* call made, in order; it is reachable in the graph from an initial state.
C4_StateFollowsCalls ==
  \A i \in DOMAIN handles :
    /\ handles[i].start \in InitialSet(graph)
    /\ handles[i].st = FollowPath(graph, handles[i].start, handles[i].path)
    /\ handles[i].st \in ReachableStates(graph)

\* A wrapper is at another state than its initial one after two transition
\* calls or more.
C4_Witness ==
  \E i \in DOMAIN handles :
    /\ Len(handles[i].path) >= 2
    /\ handles[i].st # handles[i].start

\* C5, as stated: no call succeeds on a wrapper that a transition or final
\* transition call has consumed.
C5_ConsumedNeverCalledAgain ==
  (last.call \in CallKinds /\ last.outcome = "ok") => ~last.onConsumed

\* C6, as stated: a transition or final transition call hands the wrapped
\* value over without ever copying it.
C6_ValueNeverCopied ==
  (last.call \in {"transition", "final"} /\ last.outcome = "ok") =>
    last.copies = 0

\* C7: a final transition call that succeeds returns what the wrapped
\* function returns for the value the wrapper held and the argument given,
\* and returns no wrapper.
C7_FinalReturnsResultOfFunction ==
  (last.call = "final" /\ last.outcome = "ok") =>
    /\ last.result = Invoke(last.op, last.before, last.arg, "empty").ret
    /\ last.succ = 0

\* A final transition call succeeded on a value with headers and a body.
C7_Witness ==
  /\ last.call = "final"
  /\ last.outcome = "ok"
  /\ last.before.headers # << >>
  /\ last.before.body # ""
  /\ last.result.tag = "HTTPConnection"

\* C8: a query call that succeeds leaves the wrapper at its state, with its
\* value, not consumed, and callable for exactly what resolves at its state.
C8_QueryLeavesWrapperAsItWas ==
  (last.call = "query" /\ last.outcome = "ok") =>
    /\ last.h \in DOMAIN handles
    /\ handles[last.h].st = last.from
    /\ handles[last.h].val = last.before
    /\ handles[last.h].consumed = last.onConsumed
    /\ last.after = last.before
    /\ last.succ = 0
    /\ Building
    /\ \A call \in CallKinds, f \in MemberFunctions : \A arg \in ArgsOf(f) :
         Compiles(call, handles[last.h], f, arg)
           <=> ResolvesInOwnList(graph, call, last.from, f)

\* A query call succeeded on a wrapper holding headers.
C8_Witness ==
  /\ last.call = "query"
  /\ last.outcome = "ok"
  /\ last.before.headers # << >>

\* C9: a query that repeats the query made just before it on the same
\* wrapper returns the same result and leaves the wrapper at the same
\* state.
C9_RepeatedQuerySameResult ==
  last.repeat =>
    /\ last.outcome = "ok"
    /\ last.result = last.prevResult
    /\ last.to = last.from
    /\ handles[last.h].st = last.from

\* A query was repeated on a wrapper holding headers.
C9_Witness ==
  /\ last.repeat
  /\ last.result.n > 0

\* C10: two wrappers constructed at the same state and taken through the
\* same transition functions are at the same state, whatever the arguments
\* were and whatever they hold, and every call compiles on the one iff it
\* compiles on the other, to the same target state.
C10_StateIndependentOfValues ==
  \A i \in DOMAIN handles : \A j \in (i + 1)..Len(handles) :
    (handles[i].start = handles[j].start /\ handles[i].path = handles[j].path) =>
      /\ handles[i].st = handles[j].st
      /\ \A call \in CallKinds, f \in MemberFunctions : \A a1, a2 \in ArgsOf(f) :
           /\ Compiles(call, handles[i], f, a1) <=> Compiles(call, handles[j], f, a2)
           /\ TargetState(handles[i], f, a1) = TargetState(handles[j], f, a2)

\* Two wrappers went through the same transition functions and hold
\* different values.
C10_Witness ==
  \E i, j \in DOMAIN handles :
    /\ i # j
    /\ handles[i].start = handles[j].start
    /\ handles[i].path = handles[j].path
    /\ handles[i].path # << >>
    /\ handles[i].val # handles[j].val
    /\ ~handles[i].consumed /\ ~handles[j].consumed

\* No entry of the list a call of this kind is resolved against has the
\* key (q, f): the lookup yields NotFound.
ResolvesToNotFound(g, call, q, f) ==
  \A i \in DOMAIN ListOf(g, call) : ~Keyed(ListOf(g, call)[i], q, f)

\* C11: a call whose lookup yields NotFound is an error: the wrapped
\* function is not run, no wrapper and no value is returned, and every
\* wrapper keeps its state and its value.
C11_NotFoundIsAnErrorThatRunsNothing ==
  [][(/\ last'.call \in CallKinds
      /\ ResolvesToNotFound(graph, last'.call, last'.from, last'.op))
       => /\ last'.outcome = "error"
          /\ last'.invoked = 0
          /\ last'.succ = 0
          /\ last'.result = Void
          /\ handles' = handles]_vars

\* A call whose lookup yields NotFound was made on a wrapper holding
\* headers, which is still there at its state.
C11_Witness ==
  /\ last.call \in CallKinds
  /\ ResolvesToNotFound(graph, last.call, last.from, last.op)
  /\ last.outcome = "error"
  /\ last.h \in DOMAIN handles
  /\ handles[last.h].st = last.from
  /\ handles[last.h].val.headers # << >>

\* A FinalTransition is declared for (q, f) and found by the lookup.
FinalTransitionDeclared(g, q, f) ==
  FirstKeyed(g.FinalTransitions, q, f, LAMBDA e : e.kind = "FinalTransition")

OutsideDomains(e) ==
  e.start \notin HTTPBuilderState \/ e.op \notin MemberFunctions

ReferencesOutsideDomains(g) == \E e \in AllEntries(g) : OutsideDomains(e)

\* The graph without the entries that are outside the domains.
WithinDomains(g) ==
  [g EXCEPT
     !.Transitions = SelectSeq(@, LAMBDA e : ~OutsideDomains(e)),
     !.FinalTransitions = SelectSeq(@, LAMBDA e : ~OutsideDomains(e)),
     !.ValidQueries = SelectSeq(@, LAMBDA e : ~OutsideDomains(e))]

\* C13, as stated: a graph with an entry that references a state or a
\* function outside the domains is rejected when its structure is checked,
\* at the construction of a wrapper at the latest: no wrapper exists.
C13_OutsideDomainsIsRejected ==
  ReferencesOutsideDomains(graph) =>
    /\ handles = << >>
    /\ last.call = "construct" => last.outcome = "error"

\* C13, amended: a graph whose Transitions, FinalTransitions or
\* ValidQueries hold an entry with a start state or a function outside the
\* domains is not rejected: a wrapper is constructed at every initial
\* state, the entry is never matched, and every call is accepted or
\* rejected, and reaches the state, as if the entry was not declared.
C13_OutsideDomainsIsIgnored ==
  ReferencesOutsideDomains(graph) =>
    /\ last.call = "construct" =>
         (last.outcome = "ok" <=> last.from \in InitialSet(graph))
    /\ last.call \in CallKinds =>
         (last.outcome = "ok" <=>
            ResolvesInOwnList(WithinDomains(graph), last.call, last.from, last.op))
    /\ (last.call = "transition" /\ last.outcome = "ok") =>
         /\ last.to = DeclaredEnd(WithinDomains(graph), last.from, last.op)
         /\ handles[last.succ].st = last.to

\* In a graph with entries outside the domains a wrapper was constructed
\* and taken through a transition, and a call at a state that only has
\* Transitions of a function outside the domain was rejected.
C13_Witness ==
  /\ ReferencesOutsideDomains(graph)
  /\ last.call = "transition"
  /\ last.outcome = "error"
  /\ last.from = "HEADERS"
  /\ \E i \in DOMAIN graph.Transitions :
        graph.Transitions[i].start = last.from /\ OutsideDomains(graph.Transitions[i])

\* C14: the initial states are checked at the construction of a wrapper
\* and nowhere else: a transition call that resolves succeeds and returns
\* a wrapper at the declared end state whether or not this is an initial
\* state, and a wrapper at a state that is not initial was never
\* constructed there.
C14_InitialCheckOnlyAtConstruction ==
  /\ (/\ last.call = "transition"
      /\ ResolvesInOwnList(graph, "transition", last.from, last.op))
       => /\ last.outcome = "ok"
          /\ last.to = DeclaredEnd(graph, last.from, last.op)
          /\ handles[last.succ].st = last.to
  /\ \A i \in DOMAIN handles :
       handles[i].st \notin InitialSet(graph) =>
         /\ handles[i].path # << >>
         /\ handles[i].start \in InitialSet(graph)

\* A transition call returned a wrapper at a state that is not initial.
C14_Witness ==
  /\ last.call = "transition"
  /\ last.outcome = "ok"
  /\ last.to \notin InitialSet(graph)
  /\ handles[last.succ].st = last.to

\* The calls of main on the way to build(), with short argument values.
ScenarioFunctions == <<"add_header", "add_header", "add_body">>
ScenarioArgs == <<"a", "b", "x">>

\* The history (path, args) is that of the first n calls of the scenario,
\* made on a wrapper constructed at START and on the wrappers returned.
ScenarioPrefix(path, args, n) ==
  /\ Len(path) = n
  /\ n <= Len(ScenarioFunctions)
  /\ path = SubSeq(ScenarioFunctions, 1, n)
  /\ args = SubSeq(ScenarioArgs, 1, n)

\* C15: in the headers/body protocol, add_header("a"), add_header("b"),
\* add_body("x"), build() from a new wrapper: each call is accepted on the
\* wrapper the calls before it returned, and build returns
\* (<<"a", "b">>, "x").
C15_ScenarioBuildsHeadersAndBody ==
  graph = HTTPBuilderGraph =>
    /\ \A i \in DOMAIN handles :
         LET w == handles[i]
             n == Len(w.path)
         IN  (/\ ~w.consumed /\ ~w.reused /\ w.start = "START"
              /\ ScenarioPrefix(w.path, w.args, n))
               => CASE n = 0 -> w.st = "START" /\ TransitionCompiles(w, "add_header", "a")
                    [] n = 1 -> w.st = "HEADERS" /\ TransitionCompiles(w, "add_header", "b")
                    [] n = 2 -> w.st = "HEADERS" /\ TransitionCompiles(w, "add_body", "x")
                    [] OTHER -> /\ w.st = "BODY"
                                /\ FinalTransitionCompiles(w, "build", NoArg)
                                /\ w.val = [headers |-> <<"a", "b">>, body |-> "x"]
    /\ (/\ last.call = "final" /\ last.op = "build"
        /\ ~last.onConsumed /\ ~last.reused
        /\ ScenarioPrefix(last.path, last.args, 3))
         => /\ last.outcome = "ok"
            /\ last.result = HTTPConnection(<<"a", "b">>, "x")

\* build() succeeded after exactly the calls of the scenario.
C15_Witness ==
  /\ graph = HTTPBuilderGraph
  /\ last.call = "final" /\ last.op = "build"
  /\ last.outcome = "ok"
  /\ ~last.onConsumed /\ ~last.reused
  /\ ScenarioPrefix(last.path, last.args, 3)
  /\ last.result.headers = <<"a", "b">>

\* One add_header or more, then one add_body, and nothing else.
HeadersThenBody(path) ==
  /\ Len(path) >= 2
  /\ path[Len(path)] = "add_body"
  /\ \A k \in 1..(Len(path) - 1) : path[k] = "add_header"

\* C16: in the headers/body protocol, a build that succeeds is made at
\* BODY on a wrapper that came from START by one add_header or more
\* followed by exactly one add_body; every wrapper on which build is
\* accepted has such a history, and no add_header or add_body is accepted
\* at BODY.
C16_BuildOnlyAfterHeadersThenBody ==
  graph = HTTPBuilderGraph =>
    /\ (last.call = "final" /\ last.outcome = "ok") =>
         /\ last.op = "build"
         /\ last.from = "BODY"
         /\ HeadersThenBody(last.path)
    /\ \A i \in DOMAIN handles :
         /\ handles[i].start = "START"
         /\ FinalTransitionCompiles(handles[i], "build", NoArg) =>
              HeadersThenBody(handles[i].path)
         /\ handles[i].st = "BODY" =>
              \A f \in {"add_header", "add_body"} : \A arg \in ArgsOf(f) :
                ~TransitionCompiles(handles[i], f, arg)
    /\ (last.call = "transition" /\ last.from = "BODY") => last.outcome = "error"

\* build() succeeded after one add_header and one add_body.
C16_Witness ==
  /\ graph = HTTPBuilderGraph
  /\ last.call = "final"
  /\ last.outcome = "ok"
  /\ last.path = <<"add_header", "add_body">>

\* C17: in the headers/body protocol, add_body on a wrapper at START,
\* add_header on a wrapper at BODY (after add_body) and build on a wrapper
\* at HEADERS (before add_body) are rejected: the program does not build.
C17_OutOfOrderCallsAreRejected ==
  graph = HTTPBuilderGraph =>
    /\ (last.call = "transition" /\ last.from = "START" /\ last.op = "add_body")
         => last.outcome = "error" /\ ~Building
    /\ (last.call = "transition" /\ last.from = "BODY" /\ last.op = "add_header")
         => last.outcome = "error" /\ ~Building
    /\ (last.call = "final" /\ last.from = "HEADERS" /\ last.op = "build")
         => last.outcome = "error" /\ ~Building
    /\ \A i \in DOMAIN handles :
         handles[i].st = "BODY" => "add_body" \in {handles[i].path[k] : k \in DOMAIN handles[i].path}

\* add_body was called on a new wrapper at START and rejected.
C17_Witness ==
  /\ graph = HTTPBuilderGraph
  /\ last.call = "transition"
  /\ last.from = "START"
  /\ last.op = "add_body"
  /\ last.outcome = "error"
  /\ handles[last.h].path = << >>

\* The calls, as <<kind, function>>, that compile on the wrapper w.
AcceptedOn(w) ==
  {c \in CallKinds \X MemberFunctions :
     \A arg \in ArgsOf(c[2]) : Compiles(c[1], w, c[2], arg)}

\* The wrapper came from START by add_header("a") and add_body("x"), made
\* on wrappers not used before.
AfterHeaderAndBody(path, args, reused) ==
  /\ path = <<"add_header", "add_body">>
  /\ args = <<"a", "x">>
  /\ ~reused

\* C18: in the headers/body protocol, after add_header("a") and
\* add_body("x") the query num_headers is accepted and returns 1; the
\* wrapper is then still at BODY with its value, and accepts the query and
\* build and nothing else.
C18_QueryAtBodyReturnsOne ==
  graph = HTTPBuilderGraph =>
    /\ \A i \in DOMAIN handles :
         (/\ AfterHeaderAndBody(handles[i].path, handles[i].args, handles[i].reused)
          /\ ~handles[i].consumed)
           => /\ handles[i].st = "BODY"
              /\ ValidQueryCompiles(handles[i], "num_headers", NoArg)
              /\ InvokeOnConst(handles[i].val, "num_headers", NoArg).ret = SizeT(1)
              /\ AcceptedOn(handles[i]) = {<<"query", "num_headers">>, <<"final", "build">>}
    /\ (/\ last.call = "query" /\ last.op = "num_headers"
        /\ AfterHeaderAndBody(last.path, last.args, last.reused)
        /\ ~last.onConsumed)
         => /\ last.outcome = "ok"
            /\ last.result = SizeT(1)
            /\ handles[last.h].st = "BODY"
            /\ handles[last.h].val = [headers |-> <<"a">>, body |-> "x"]
            /\ ~handles[last.h].consumed

\* num_headers returned 1 after add_header("a") and add_body("x").
C18_Witness ==
  /\ graph = HTTPBuilderGraph
  /\ last.call = "query" /\ last.op = "num_headers"
  /\ last.outcome = "ok"
  /\ AfterHeaderAndBody(last.path, last.args, last.reused)
  /\ ~last.onConsumed
  /\ last.result.n = 1

\* Transitions i and j of g, i declared before j, have the same key, and no
\* entry before i has it.
DuplicateTransitions(g, i, j) ==
  /\ i < j
  /\ g.Transitions[i].kind = "Transition"
  /\ g.Transitions[j].kind = "Transition"
  /\ Keyed(g.Transitions[j], g.Transitions[i].start, g.Transitions[i].op)
  /\ \A k \in 1..(i - 1) :
       ~Keyed(g.Transitions[k], g.Transitions[i].start, g.Transitions[i].op)

\* C19: a graph with two Transitions of the same key is not rejected:
\* wrappers are constructed at its initial states, and a transition call
\* with this key is accepted and returns a wrapper at the end state of the
\* Transition declared first.
C19_FirstOfDuplicateTransitionsWins ==
  \A i, j \in DOMAIN graph.Transitions :
    DuplicateTransitions(graph, i, j) =>
      /\ (last.call = "construct" /\ last.from \in InitialSet(graph))
           => last.outcome = "ok"
      /\ (/\ last.call = "transition"
          /\ Keyed(graph.Transitions[i], last.from, last.op))
           => /\ last.outcome = "ok"
              /\ last.to = graph.Transitions[i].end
              /\ handles[last.succ].st = graph.Transitions[i].end

\* A transition call with a key declared twice, with two end states,
\* returned a wrapper that is not at the second one.
C19_Witness ==
  \E i, j \in DOMAIN graph.Transitions :
    /\ DuplicateTransitions(graph, i, j)
    /\ graph.Transitions[i].end # graph.Transitions[j].end
    /\ last.call = "transition"
    /\ Keyed(graph.Transitions[i], last.from, last.op)
    /\ last.outcome = "ok"
    /\ handles[last.succ].st # graph.Transitions[j].end

\* C20: a transition call that succeeds returns a wrapper holding the
\* value the function makes, with the argument given, of the value the
\* wrapper called on held; handing the value over changes nothing of it.
C20_SuccessorHoldsResultOfFunction ==
  (last.call = "transition" /\ last.outcome = "ok") =>
    /\ last.invoked = 1
    /\ last.after = Invoke(last.op, last.before, last.arg, "empty").val
    /\ handles[last.succ].val = last.after

\* add_body succeeded on a wrapper holding headers.
C20_Witness ==
  /\ last.call = "transition"
  /\ last.outcome = "ok"
  /\ last.op = "add_body"
  /\ last.before.headers # << >>
  /\ handles[last.succ].val.headers = last.before.headers
  /\ handles[last.succ].val.body = last.arg

\* No FinalTransition is declared, in the list of final transitions, for a
\* function of the wrapped class at a state reachable from the initial
\* states.
NoFinalTransitionReachable(g) ==
  \A q \in ReachableStates(g), f \in MemberFunctions :
    ~FinalTransitionDeclared(g, q, f)

\* C21: a graph in which no final transition can be reached from an
\* initial state is accepted: a wrapper is constructed at each initial
\* state and its declared transitions are accepted and lead to their end
\* states, while no final transition call is ever accepted.
C21_NoReachableFinalIsAccepted ==
  NoFinalTransitionReachable(graph) =>
    /\ (last.call = "construct" /\ last.from \in InitialSet(graph))
         => last.outcome = "ok" /\ handles[last.succ].st = last.from
    /\ (/\ last.call = "transition"
        /\ ResolvesInOwnList(graph, "transition", last.from, last.op))
         => /\ last.outcome = "ok"
            /\ handles[last.succ].st = DeclaredEnd(graph, last.from, last.op)
    /\ last.call = "final" => last.outcome = "error"

\* In a graph that has initial states and no reachable final transition,
\* a wrapper went through two transitions.
C21_Witness ==
  /\ NoFinalTransitionReachable(graph)
  /\ InitialSet(graph) # {}
  /\ last.call = "transition"
  /\ last.outcome = "ok"
  /\ Len(handles[last.succ].path) = 2

\* (q, f) is declared, by an entry of the kind of its list, in the list of
\* another kind of call, and by no entry of the list of this kind of call.
DeclaredOnlyElsewhere(g, call, q, f) ==
  /\ ResolvesToNotFound(g, call, q, f)
  /\ \E other \in CallKinds \ {call} :
       \E i \in DOMAIN ListOf(g, other) :
         /\ Keyed(ListOf(g, other)[i], q, f)
         /\ ListOf(g, other)[i].kind = KindOf(other)

\* C22: a call is resolved against the list of its own kind only: a call
\* that is accepted has an entry of its kind, with its key, in that list,
\* and a call whose key is declared in the lists of the other kinds only
\* is rejected.
C22_EachCallConsultsItsOwnList ==
  last.call \in CallKinds =>
    /\ last.outcome = "ok" =>
         \E i \in DOMAIN ListOf(graph, last.call) :
           /\ Keyed(ListOf(graph, last.call)[i], last.from, last.op)
           /\ ListOf(graph, last.call)[i].kind = KindOf(last.call)
    /\ DeclaredOnlyElsewhere(graph, last.call, last.from, last.op) =>
         last.outcome = "error"

\* A call of a function that this kind of call could invoke was rejected
\* at a state where the function is declared for another kind of call.
C22_Witness ==
  /\ last.call \in CallKinds
  /\ DeclaredOnlyElsewhere(graph, last.call, last.from, last.op)
  /\ Invocable(last.call, last.op)
  /\ last.outcome = "error"

\* What the call recorded in rec left and returned is what one run of its
\* function on the value held before leaves and returns.
RanOnce(rec) ==
  LET once == Invoke(rec.op, rec.before, rec.arg, "empty")
  IN  CASE rec.call = "transition" -> rec.after = once.val
        [] rec.call = "final" ->
             /\ rec.result = once.ret
             /\ \E mfs \in {"empty", "unchanged"} :
                  rec.after = Invoke(rec.op, rec.before, rec.arg, mfs).val
        [] OTHER -> rec.result = once.ret /\ rec.after = rec.before

\* C23: a call that succeeds runs its function on the wrapped value
\* exactly once, and a call that is rejected does not run it.
C23_FunctionRunsOncePerAcceptedCall ==
  last.call \in CallKinds =>
    /\ last.outcome = "ok" => last.invoked = 1 /\ RanOnce(last)
    /\ last.outcome = "error" =>
         /\ last.invoked = 0
         /\ last.succ = 0
         /\ last.result = Void
         /\ last.after = DefaultWrapped
         /\ handles[last.h].st = last.from

\* add_header succeeded on a wrapper holding a header, and the wrapper it
\* returned holds one header more.
C23_Witness ==
  /\ last.call = "transition"
  /\ last.op = "add_header"
  /\ last.outcome = "ok"
  /\ last.before.headers # << >>
  /\ Len(handles[last.succ].val.headers) = Len(last.before.headers) + 1

\* build is accepted on the wrapper w, or on a wrapper that n transition
\* calls or fewer, each accepted, lead to from w.
RECURSIVE CanReachBuild(_, _)
CanReachBuild(w, n) ==
  \/ FinalTransitionCompiles(w, "build", NoArg)
  \/ /\ n > 0
     /\ \E f \in MemberFunctions : \E arg \in ArgsOf(f) :
          /\ TransitionCompiles(w, f, arg)
          /\ CanReachBuild([w EXCEPT !.st = TargetState(w, f, arg)], n - 1)

\* C24: in the headers/body protocol the states a wrapper reaches from
\* START are START, HEADERS and BODY, and none is a dead end: from each of
\* them, and from every wrapper there is, accepted calls lead to a build
\* that is accepted.
C24_NoDeadEndInHeadersBodyProtocol ==
  graph = HTTPBuilderGraph =>
    /\ ReachableStates(graph) = HTTPBuilderState
    /\ \A q \in ReachableStates(graph) :
         CanReachBuild(Wrapper(q, DefaultWrapped, "START", << >>), 2)
    /\ \A i \in DOMAIN handles :
         /\ handles[i].st \in ReachableStates(graph)
         /\ CanReachBuild(handles[i], 2)

\* A wrapper was left at HEADERS and build succeeded on the wrapper that
\* add_body returned.
C24_Witness ==
  /\ graph = HTTPBuilderGraph
  /\ \E i \in DOMAIN handles : handles[i].st = "HEADERS"
  /\ last.call = "final"
  /\ last.from = "BODY"
  /\ last.outcome = "ok"

\* C25: with an empty list of initial states the construction of a wrapper
\* is rejected at every state, so there is no wrapper and no call of any
\* kind is made.
C25_NoInitialStateNoWrapper ==
  InitialSet(graph) = {} =>
    /\ handles = << >>
    /\ last.call \in {"none", "construct"}
    /\ last.call = "construct" =>
         /\ last.from \in HTTPBuilderState
         /\ last.outcome = "error"
         /\ last.succ = 0
         /\ ~Building

\* With an empty list of initial states, a construction at START was
\* rejected.
C25_Witness ==
  /\ InitialSet(graph) = {}
  /\ last.call = "construct"
  /\ last.from = "START"
  /\ last.outcome = "error"
  /\ handles = << >>

\* The first entry of the list of this kind of call with the key (q, f) is
\* of another kind than the call.
FirstMatchOfOtherKind(g, call, q, f) ==
  FirstKeyed(ListOf(g, call), q, f, LAMBDA e : e.kind # KindOf(call))

\* An entry of the kind of the call, with the key (q, f), is in the list
\* of this kind of call.
RightKindDeclared(g, call, q, f) ==
  \E i \in DOMAIN ListOf(g, call) :
    /\ Keyed(ListOf(g, call)[i], q, f)
    /\ ListOf(g, call)[i].kind = KindOf(call)

\* C26: the lookup in a list yields the first entry with the key asked
\* for, of whatever kind; when this entry is of another kind than the call
\* the call is rejected, also when an entry of the kind of the call with
\* the same key comes later in the list.
C26_FirstMatchOfAnyKindDecides ==
  last.call \in CallKinds =>
    /\ ~ResolvesToNotFound(graph, last.call, last.from, last.op) =>
         FirstKeyed(ListOf(graph, last.call), last.from, last.op,
                    LAMBDA e : e = find_transition(last.from, last.op,
                                                   ListOf(graph, last.call)))
    /\ FirstMatchOfOtherKind(graph, last.call, last.from, last.op) =>
         last.outcome = "error"

\* A call was rejected on an entry of another kind although an entry of
\* its own kind with the same key comes later in the list, and the call
\* could invoke the function.
C26_Witness ==
  /\ last.call \in CallKinds
  /\ FirstMatchOfOtherKind(graph, last.call, last.from, last.op)
  /\ RightKindDeclared(graph, last.call, last.from, last.op)
  /\ Invocable(last.call, last.op)
  /\ last.outcome = "error"

\* C27: a transition call that succeeds returns the wrapper at the target
\* state and nothing else: what the function returned, void or not, is
\* not handed back.
C27_TransitionDropsWhatTheFunctionReturns ==
  (last.call = "transition" /\ last.outcome = "ok") =>
    /\ last.result = Void
    /\ last.succ \in DOMAIN handles
    /\ handles[last.succ].st = last.to

\* A function that returns a count that is not zero was called as a
\* transition, and the call succeeded.
C27_Witness ==
  /\ last.call = "transition"
  /\ last.outcome = "ok"
  /\ Invoke(last.op, last.before, last.arg, "empty").ret.tag = "size_t"
  /\ Invoke(last.op, last.before, last.arg, "empty").ret.n > 0

=============================================================================
